---- MODULE Spec2Model ----
(***************************************************************************)
(* Model of the 'custom:docker-compose' scaffolder action of               *)
(* src/runDockerCompose.ts: the handler's control flow, the external       *)
(* processes it spawns and awaits, and the container runtime they act on.  *)
(*                                                                         *)
(* JavaScript strings are modelled as sequences of one-character strings,  *)
(* so that split, includes, trim and the port-line regular expression are  *)
(* computed character by character as the code computes them.              *)
(***************************************************************************)
EXTENDS Integers, Sequences, FiniteSets, TLC

\* ------------------------------------------------------------------ bounds

\* Largest number of services a manifest of the model declares.
MaxServices == 2
\* Largest exit code 'docker compose up' closes with in the model.
MaxExit == 2

\* ------------------------------------------------------- string primitives

Digits == {"0", "1", "2", "3", "4", "5", "6", "7", "8", "9"}

\* The decimal text of a natural number, as a template literal prints it.
RECURSIVE DecStr(_)
DecStr(n) ==
  LET d == <<"0", "1", "2", "3", "4", "5", "6", "7", "8", "9">>[(n % 10) + 1]
  IN  IF n < 10 THEN <<d>> ELSE DecStr(n \div 10) \o <<d>>

\* s.startsWith(sub) at 1-based position i.
MatchAt(s, sub, i) ==
  /\ i >= 1
  /\ i + Len(sub) - 1 <= Len(s)
  /\ \A k \in 1..Len(sub) : s[i + k - 1] = sub[k]

\* String.prototype.includes.
Includes(s, sub) == \E i \in 1..(Len(s) + 1) : MatchAt(s, sub, i)

\* Position of the first occurrence of sub in s at or after from; 0 if none.
IndexOf(s, sub, from) ==
  LET hits == {i \in from..(Len(s) + 1) : MatchAt(s, sub, i)}
  IN  IF hits = {} THEN 0 ELSE CHOOSE i \in hits : \A j \in hits : i <= j

\* String.prototype.split with a non-empty separator.
RECURSIVE SplitFrom(_, _, _)
SplitFrom(s, sep, from) ==
  LET i == IndexOf(s, sep, from)
  IN  IF i = 0
        THEN <<SubSeq(s, from, Len(s))>>
        ELSE <<SubSeq(s, from, i - 1)>> \o SplitFrom(s, sep, i + Len(sep))

Split(s, sep) == SplitFrom(s, sep, 1)

WhiteSpace == {" ", "\n"}

\* String.prototype.trim.
RECURSIVE TrimLeft(_)
TrimLeft(s) ==
  IF s # <<>> /\ Head(s) \in WhiteSpace THEN TrimLeft(Tail(s)) ELSE s

RECURSIVE TrimRight(_)
TrimRight(s) ==
  IF s # <<>> /\ s[Len(s)] \in WhiteSpace
    THEN TrimRight(SubSeq(s, 1, Len(s) - 1))
    ELSE s

Trim(s) == TrimRight(TrimLeft(s))

\* Array.prototype.join.
RECURSIVE Join(_, _)
Join(parts, sep) ==
  IF parts = <<>> THEN <<>>
  ELSE IF Len(parts) = 1 THEN parts[1]
  ELSE parts[1] \o sep \o Join(Tail(parts), sep)

\* Number of leading decimal digits of s.
RECURSIVE DigitPrefix(_)
DigitPrefix(s) ==
  IF s # <<>> /\ Head(s) \in Digits THEN 1 + DigitPrefix(Tail(s)) ELSE 0

AllDigits(s) == s # <<>> /\ \A k \in 1..Len(s) : s[k] \in Digits

Range(s) == {s[k] : k \in 1..Len(s)}


\* ------------------------------------------------------------ the inputs

\* path.basename(cwd) of the invocation.
ComposeDirName == <<"p", "r", "o", "j">>

\* path.join(cwd, ctx.input.composeFile).
ComposePath == <<"/", "w", "s", "/", "p", "r", "o", "j", "/", "c", ".", "y", "m", "l">>

\* Service names of the model's manifests, in document order.
ServiceNameList == <<<<"w", "e", "b">>, <<"d", "b">>, <<"a", "p", "i">>>>

\* Port specifications as they appear under a service's 'ports' key.
PortHostContainer == <<"8", "0", "8", "0", ":", "8", "0">>
PortContainerOnly == <<"8", "0">>
PortSecond == <<"9", "0", "9", "0", ":", "9", "0">>
PortIpBound == <<"1", "2", "7", ".", "0", ".", "0", ".", "1", ":", "8", "0", "8", "0", ":", "8", "0">>
PortEighty == <<"8", "0", ":", "8", "0">>

\* A service definition: the value of composeDoc.services[service].
\*   isNull          the entry is empty ('web:' with no body), so def is null
\*   container_name  <<>> when the key is absent
\*   hasPorts        whether the 'ports' key is present
DefNull == [isNull |-> TRUE, container_name |-> <<>>, hasPorts |-> FALSE, ports |-> <<>>]
DefPlain == [isNull |-> FALSE, container_name |-> <<>>, hasPorts |-> FALSE, ports |-> <<>>]
DefWeb ==
  [isNull |-> FALSE, container_name |-> <<>>, hasPorts |-> TRUE,
   ports |-> <<PortHostContainer, PortContainerOnly, PortSecond>>]
DefIpBound ==
  [isNull |-> FALSE, container_name |-> <<"m", "y", "d", "b">>, hasPorts |-> TRUE,
   ports |-> <<PortIpBound>>]

\* A container name with a dot, and host port 80.
DefDotted ==
  [isNull |-> FALSE, container_name |-> <<"m", "y", ".", "d", "b">>, hasPorts |-> TRUE,
   ports |-> <<PortEighty>>]

DefCatalogue == {DefNull, DefPlain, DefWeb, DefIpBound, DefDotted}

\* The 'services' mappings of the model: the first n names, any definitions.
ServiceLists ==
  UNION {{[k \in 1..n |-> [name |-> ServiceNameList[k], def |-> f[k]]] :
            f \in [1..n -> DefCatalogue]} : n \in 0..MaxServices}

\* What the manifest file holds, as yaml.load sees it:
\*   syntaxOk     FALSE when yaml.load throws
\*   docDefined   FALSE when the document is empty (yaml.load returns undefined)
\*   hasServices  whether the document has a truthy 'services' key
Manifests ==
  {[syntaxOk |-> FALSE, docDefined |-> FALSE, hasServices |-> FALSE, services |-> <<>>],
   [syntaxOk |-> TRUE, docDefined |-> FALSE, hasServices |-> FALSE, services |-> <<>>],
   [syntaxOk |-> TRUE, docDefined |-> TRUE, hasServices |-> FALSE, services |-> <<>>]}
  \cup {[syntaxOk |-> TRUE, docDefined |-> TRUE, hasServices |-> TRUE, services |-> l] :
          l \in ServiceLists}

\* ---------------------------------------------------- the container runtime

\* A published port of a container.
Binding(ip, hostPort, containerPort, proto) ==
  [ip |-> ip, hostPort |-> hostPort, containerPort |-> containerPort, proto |-> proto]

AnyAddr == <<"0", ".", "0", ".", "0", ".", "0">>
\* The IPv6 wildcard address as the runtime prints it.
AnyAddr6 == <<"[", ":", ":", "]">>
Tcp == <<"t", "c", "p">>
Udp == <<"u", "d", "p">>

\* Containers a previous run may have left behind.
LeftoverWeb ==
  [name |-> <<"p", "r", "o", "j", "_", "w", "e", "b", "_", "1">>, running |-> TRUE,
   bindings |-> <<Binding(AnyAddr, <<"8", "0", "8", "0">>, <<"8", "0">>, Tcp)>>]
LeftoverOld ==
  [name |-> <<"o", "l", "d">>, running |-> TRUE,
   bindings |-> <<Binding(AnyAddr, <<"8", "0", "8", "0">>, <<"8", "0">>, Tcp),
                  Binding(AnyAddr, <<"9", "0", "9", "0">>, <<"9", "0">>, Tcp)>>]
LeftoverDb == [name |-> <<"m", "y", "d", "b">>, running |-> FALSE, bindings |-> <<>>]

LeftoverLookalike ==
  [name |-> <<"m", "y", "x", "d", "b">>, running |-> FALSE, bindings |-> <<>>]

LeftoverCatalogue == <<LeftoverWeb, LeftoverOld, LeftoverDb, LeftoverLookalike>>

\* The host sockets a running container holds.
HostSockets(c) ==
  IF c.running THEN {<<c.bindings[k].ip, c.bindings[k].hostPort, c.bindings[k].proto>> :
                       k \in 1..Len(c.bindings)}
  ELSE {}

\* A runtime state the daemon allows: names are unique and no host socket is
\* held by two running containers.
ValidRuntime(cs) ==
  \A a, b \in 1..Len(cs) :
    a # b => /\ cs[a].name # cs[b].name
             /\ HostSockets(cs[a]) \cap HostSockets(cs[b]) = {}

RECURSIVE Pick(_, _, _)
Pick(s, idx, k) ==
  IF k > Len(s) THEN <<>>
  ELSE (IF k \in idx THEN <<s[k]>> ELSE <<>>) \o Pick(s, idx, k + 1)

InitialRuntimes ==
  {cs \in {Pick(LeftoverCatalogue, idx, 1) : idx \in SUBSET (1..Len(LeftoverCatalogue))} :
     ValidRuntime(cs)}

\* 'docker ps' prints a published port as ip:hostPort->containerPort/proto.
PsPort(b) == b.ip \o <<":">> \o b.hostPort \o <<"-", ">">> \o b.containerPort \o <<"/">> \o b.proto

RECURSIVE PsPortList(_)
PsPortList(bs) == IF bs = <<>> THEN <<>> ELSE <<PsPort(Head(bs))>> \o PsPortList(Tail(bs))

\* The {{.Ports}} column: the published ports joined with ", ".
PsPorts(bs) == Join(PsPortList(bs), <<",", " ">>)

\* stdout of: docker ps --format "{{.Names}}:::{{.Ports}}"   (running containers only)
RECURSIVE ListingOutput(_)
ListingOutput(cs) ==
  IF cs = <<>> THEN <<>>
  ELSE (IF Head(cs).running
          THEN Head(cs).name \o <<":", ":", ":">> \o PsPorts(Head(cs).bindings) \o <<"\n">>
          ELSE <<>>)
       \o ListingOutput(Tail(cs))

\* 'docker port' prints a published port as containerPort/proto -> ip:hostPort.
PortLine(b) ==
  b.containerPort \o <<"/">> \o b.proto \o <<" ", "-", ">", " ">> \o b.ip \o <<":">> \o b.hostPort
  \o <<"\n">>

RECURSIVE PortLines(_)
PortLines(bs) == IF bs = <<>> THEN <<>> ELSE PortLine(Head(bs)) \o PortLines(Tail(bs))

\* The name filter of 'docker ps' is a regular expression. "^name$" matches a
\* whole name; a '.' of the pattern matches any character.
NameFilterExact(pattern, name) ==
  /\ Len(pattern) = Len(name)
  /\ \A k \in 1..Len(pattern) : pattern[k] = "." \/ pattern[k] = name[k]

\* stdout of: docker ps --filter "name=<service>" --format "{{.Names}}" | xargs -r -I {} docker port {}
RECURSIVE InspectOutput(_, _)
InspectOutput(cs, service) ==
  IF cs = <<>> THEN <<>>
  ELSE (IF Head(cs).running /\ Includes(Head(cs).name, service)
          THEN PortLines(Head(cs).bindings)
          ELSE <<>>)
       \o InspectOutput(Tail(cs), service)

\* The runtime after: docker ps -a --filter "name=^<name>$" ... | xargs -r docker rm -f
RECURSIVE RemoveByName(_, _)
RemoveByName(cs, name) ==
  IF cs = <<>> THEN <<>>
  ELSE (IF NameFilterExact(name, Head(cs).name) THEN <<>> ELSE <<Head(cs)>>)
       \o RemoveByName(Tail(cs), name)

\* ------------------------------------------------- the handler's pure parts

\* const containerName = def.container_name ? def.container_name : `${composeDirName}_${service}_1`
ContainerName(service, def) ==
  IF def.container_name # <<>>
    THEN def.container_name
    ELSE ComposeDirName \o <<"_">> \o service \o <<"_", "1">>

\* The host ports pushed for a list of port specifications.
RECURSIVE HostPortsOf(_)
HostPortsOf(specs) ==
  IF specs = <<>> THEN <<>>
  ELSE LET parts == Split(Head(specs), <<":">>)
       IN  (IF Len(parts) >= 2 THEN <<parts[1]>> ELSE <<>>) \o HostPortsOf(Tail(specs))

ExpectedHostPorts(def) == IF def.hasPorts THEN HostPortsOf(def.ports) ELSE <<>>

\* composeDoc.services[service]
RECURSIVE DefOf(_, _)
DefOf(services, service) ==
  IF Head(services).name = service THEN Head(services).def ELSE DefOf(Tail(services), service)

\* The loop that fills svcInfos; reading a property of a null definition throws.
BuildThrows(doc, names) == \E k \in 1..Len(names) : DefOf(doc.services, names[k]).isNull

BuildSvcInfos(doc, names) ==
  [k \in 1..Len(names) |->
     LET def == DefOf(doc.services, names[k])
     IN  [service |-> names[k],
          containerName |-> ContainerName(names[k], def),
          expectedHostPorts |-> ExpectedHostPorts(def)]]

\* The declared host ports in the order the by-port pass visits them.
RECURSIVE PortQueue(_)
PortQueue(infos) ==
  IF infos = <<>> THEN <<>> ELSE Head(infos).expectedHostPorts \o PortQueue(Tail(infos))

\* The names pushed to results for the lines of a listing and a declared port.
RECURSIVE ConflictsIn(_, _)
ConflictsIn(lines, port) ==
  IF lines = <<>> THEN <<>>
  ELSE LET parts == Split(Head(lines), <<":", ":", ":">>)
           hit == /\ Len(parts) >= 2
                  /\ parts[2] # <<>>
                  /\ Includes(parts[2], port \o <<"-", ">">>)
       IN  (IF hit THEN <<parts[1]>> ELSE <<>>) \o ConflictsIn(Tail(lines), port)

ConflictingContainers(out, port) == ConflictsIn(Split(Trim(out), <<"\n">>), port)

\* line.match(/^(\d+)\/tcp -> [^:]+:(\d+)$/)
MatchPortLine(line) ==
  LET n == DigitPrefix(line)
      lit == <<"/", "t", "c", "p", " ", "-", ">", " ">>
      rest == SubSeq(line, n + Len(lit) + 1, Len(line))
      c == IndexOf(rest, <<":">>, 1)
      ok == /\ n >= 1
            /\ MatchAt(line, lit, n + 1)
            /\ c >= 2
            /\ AllDigits(SubSeq(rest, c + 1, Len(rest)))
  IN  IF ok
        THEN <<[containerPort |-> SubSeq(line, 1, n), hostPort |-> SubSeq(rest, c + 1, Len(rest))]>>
        ELSE <<>>

RECURSIVE MappingsOf(_)
MappingsOf(lines) ==
  IF lines = <<>> THEN <<>>
  ELSE (IF Trim(Head(lines)) # <<>> THEN MatchPortLine(Head(lines)) ELSE <<>>)
       \o MappingsOf(Tail(lines))

ParseMappings(output) == MappingsOf(Split(output, <<"\n">>))

\* SetEntry that leaves out a service without mappings.
SetEntry_SkipEmpty(obj, key, value) ==
  IF value = <<>> THEN obj ELSE Append(obj, [service |-> key, mappings |-> value])

\* ports[service] = mappings on an object that keeps insertion order.
RECURSIVE SetEntry(_, _, _)
SetEntry(obj, key, value) ==
  IF obj = <<>> THEN <<[service |-> key, mappings |-> value]>>
  ELSE IF Head(obj).service = key THEN <<[service |-> key, mappings |-> value]>> \o Tail(obj)
  ELSE <<Head(obj)>> \o SetEntry(Tail(obj), key, value)

UrlPrefix == <<"h", "t", "t", "p", ":", "/", "/", "l", "o", "c", "a", "l", "h", "o", "s", "t", ":">>

\* PickWebUrl without the break: the last entry with a mapping wins.
RECURSIVE PickWebUrl_NoBreak(_)
PickWebUrl_NoBreak(entries) ==
  IF entries = <<>> THEN <<>>
  ELSE LET later == PickWebUrl_NoBreak(Tail(entries))
       IN  IF later # <<>> THEN later
           ELSE IF Len(Head(entries).mappings) > 0
             THEN UrlPrefix \o Head(entries).mappings[1].hostPort
           ELSE <<>>

\* Step 5: the first entry with a mapping gives the URL.
RECURSIVE PickWebUrl(_)
PickWebUrl(entries) ==
  IF entries = <<>> THEN <<>>
  ELSE IF Len(Head(entries).mappings) > 0
    THEN UrlPrefix \o Head(entries).mappings[1].hostPort
  ELSE PickWebUrl(Tail(entries))

NotFoundMessage == <<"C", "o", "m", "p", "o", "s", "e", " ", "f", "i", "l", "e", " ", "n", "o", "t", " ", "f", "o", "u", "n", "d", ":", " ">> \o ComposePath
UpFailedMessage(code) == <<"d", "o", "c", "k", "e", "r", " ", "c", "o", "m", "p", "o", "s", "e", " ", "u", "p", " ", "e", "x", "i", "t", "e", "d", " ", "w", "i", "t", "h", " ", "c", "o", "d", "e", " ">> \o DecStr(code)

\* --------------------------------------------------- what 'compose up' makes

\* How a service's container ends up after a successful 'up':
\*   exited  created, but not running at discovery
\*   udp     running, publishing only a udp port
\*   tcp     running, publishing a udp and a tcp port
\*   dual    running, publishing a tcp port on the IPv4 and the IPv6 wildcard
Outcomes == {"exited", "udp", "tcp", "dual"}

\* The host port the daemon assigns to the k-th service's container.
AssignedPort(k) == <<"3", "2", "8", "0">> \o DecStr(k)

CreatedContainer(name, outcome, k) ==
  [name |-> name,
   running |-> outcome # "exited",
   bindings |->
     IF outcome = "exited" THEN <<>>
     ELSE IF outcome = "udp" THEN <<Binding(AnyAddr, AssignedPort(k), <<"5", "3">>, Udp)>>
     ELSE IF outcome = "dual"
       THEN <<Binding(AnyAddr, AssignedPort(k), <<"8", "0">>, Tcp),
              Binding(AnyAddr6, AssignedPort(k), <<"8", "0">>, Tcp)>>
     ELSE <<Binding(AnyAddr, AssignedPort(k), <<"5", "3">>, Udp),
            Binding(AnyAddr, AssignedPort(k), <<"8", "0">>, Tcp)>>]

\* The containers of the manifest's services, newest first.
RECURSIVE CreatedContainers(_, _, _)
CreatedContainers(services, outcome, k) ==
  IF k > Len(services) THEN <<>>
  ELSE CreatedContainers(services, outcome, k + 1)
       \o <<CreatedContainer(ContainerName(services[k].name, services[k].def), outcome[k], k)>>

RECURSIVE RemoveAll(_, _)
RemoveAll(cs, names) ==
  IF cs = <<>> THEN <<>>
  ELSE (IF Head(cs).name \in names THEN <<>> ELSE <<Head(cs)>>) \o RemoveAll(Tail(cs), names)

\* 'compose up' replaces a container that has the name of one it creates.
RuntimeAfterUp(cs, services, outcome) ==
  LET made == CreatedContainers(services, outcome, 1)
  IN  made \o RemoveAll(cs, {made[k].name : k \in 1..Len(made)})

\* 'compose up' refuses a manifest in which two services resolve to one name.
UpCanSucceed(services) ==
  \A a, b \in 1..Len(services) :
    a # b => ContainerName(services[a].name, services[a].def)
               # ContainerName(services[b].name, services[b].def)

\* ------------------------------------------------------------------ state

VARIABLES
  fileExists,    \* fs.existsSync(composePath)
  manifest,      \* the content of the compose file
  containers,    \* the runtime's containers, in listing order
  pc,            \* the handler's position
  serviceNames,  \* let serviceNames
  composeDoc,    \* let composeDoc
  parsed,        \* whether the manifest has been read and handed to yaml.load
  svcInfos,      \* const svcInfos
  i,             \* the by-name pass's position in svcInfos
  q,             \* the by-port pass's position in the declared host ports
  conflicting,   \* const conflictingContainers
  k,             \* the position in conflictingContainers
  d,             \* the discovery loop's position in serviceNames
  procs,         \* the external processes spawned and not yet closed
  spawned,       \* every process spawned so far, in order
  rmFailed,      \* whether some force-removal left its container in place
  upCode,        \* the exit code 'compose up' closed with; -1 before
  ports,         \* const ports
  outputs,       \* the ctx.output calls made, in order
  result,        \* the value the handler returned
  error,         \* the error the handler threw
  probe,         \* a port-query output handed to the line parser on its own
  stderrLog,     \* the ctx.logger calls of upProc's stderr handler, in order
  other          \* a second invocation on the same directory and manifest

vars ==
  <<fileExists, manifest, containers, pc, serviceNames, composeDoc, parsed, svcInfos,
    i, q, conflicting, k, d, procs, spawned, rmFailed, upCode, ports, outputs, result,
    error, probe, stderrLog, other>>

inputVars == <<fileExists, manifest>>
parseVars == <<serviceNames, composeDoc, parsed>>
loopVars == <<i, q, conflicting, k, d>>
outVars == <<ports, outputs, result, error>>
sideVars == <<probe, stderrLog, other>>

EmptyDoc == [defined |-> TRUE, hasServices |-> FALSE, services |-> <<>>]
NoResult == [returned |-> FALSE, webUrl |-> <<>>, ports |-> <<>>]
NoError == [thrown |-> FALSE, kind |-> "none", message |-> <<>>]
NoProbe == [output |-> <<>>, mappings |-> <<>>, done |-> FALSE]
NoOther == [pc |-> "idle", i |-> 1, q |-> 1, conflicting |-> <<>>, k |-> 1, took |-> {}]

Init ==
  /\ fileExists \in BOOLEAN
  /\ manifest \in Manifests
  /\ containers \in InitialRuntimes
  /\ pc = "start"
  /\ serviceNames = <<>>
  /\ composeDoc = EmptyDoc
  /\ parsed = FALSE
  /\ svcInfos = <<>>
  /\ i = 1 /\ q = 1 /\ conflicting = <<>> /\ k = 1 /\ d = 1
  /\ procs = {}
  /\ spawned = <<>>
  /\ rmFailed = FALSE
  /\ upCode = -1
  /\ ports = <<>>
  /\ outputs = <<>>
  /\ result = NoResult
  /\ error = NoError
  /\ probe = NoProbe
  /\ stderrLog = <<>>
  /\ other = NoOther

\* spawn(...): the process runs until its 'close' event.
Spawn(kind, arg) ==
  /\ procs' = procs \cup {[id |-> Len(spawned) + 1, kind |-> kind, arg |-> arg]}
  /\ spawned' = Append(spawned, [kind |-> kind, arg |-> arg, at |-> pc])

\* The 'close' event of process p.
Closes(p) == procs' = procs \ {p}

\* throw new Error(...): the handler's promise rejects.
Throw(kind, message) ==
  /\ error' = [thrown |-> TRUE, kind |-> kind, message |-> message]
  /\ pc' = "failed"

\* ---------------------------------------------------------------- actions

\* CheckExists without the existence test: the handler goes on to read the file.
CheckExists_NoTest ==
  /\ pc = "start"
  /\ pc' = "parse"
  /\ UNCHANGED <<inputVars, sideVars, containers, parseVars, svcInfos, loopVars, procs, spawned,
                 rmFailed, upCode, outVars>>

\* if (!fs.existsSync(composePath)) throw ...
CheckExists ==
  /\ pc = "start"
  /\ IF fileExists
       THEN pc' = "parse" /\ error' = error
       ELSE Throw("notFound", NotFoundMessage)
  /\ UNCHANGED <<inputVars, sideVars, containers, parseVars, svcInfos, loopVars, procs, spawned,
                 rmFailed, upCode, ports, outputs, result>>

\* Step 1: the try block; any throw inside it is caught and logged.
ParsedNames(m) ==
  IF m.syntaxOk /\ m.docDefined /\ m.hasServices
    THEN [n \in 1..Len(m.services) |-> m.services[n].name]
    ELSE <<>>

ParsedDoc(m) ==
  IF ~m.syntaxOk THEN EmptyDoc
  ELSE [defined |-> m.docDefined, hasServices |-> m.hasServices, services |-> m.services]

Parse ==
  /\ pc = "parse"
  /\ parsed' = TRUE
  /\ composeDoc' = ParsedDoc(manifest)
  /\ serviceNames' = ParsedNames(manifest)
  /\ pc' = "build"
  /\ UNCHANGED <<inputVars, sideVars, containers, svcInfos, loopVars, procs, spawned, rmFailed,
                 upCode, outVars>>

\* Where the handler goes once a pass has nothing left to do.
StartPassB(infos) == IF PortQueue(infos) # <<>> THEN "passB" ELSE "up"
\* StartPassA that goes to the by-port pass at once.
StartPassA_SkipByName(infos) == StartPassB(infos)

\* StartPassA that takes an empty service list as nothing to launch.
StartPassA_SkipLaunch(infos) == IF infos # <<>> THEN "passA" ELSE "finish"

StartPassA(infos) == IF infos # <<>> THEN "passA" ELSE StartPassB(infos)

\* Step 2, first loop: svcInfos. It runs outside the try block.
Build ==
  /\ pc = "build"
  /\ IF BuildThrows(composeDoc, serviceNames)
       THEN /\ Throw("typeError", <<>>)
            /\ svcInfos' = svcInfos
       ELSE /\ svcInfos' = BuildSvcInfos(composeDoc, serviceNames)
            /\ pc' = StartPassA(svcInfos')
            /\ error' = error
  /\ UNCHANGED <<inputVars, sideVars, containers, parseVars, loopVars, procs, spawned, rmFailed,
                 upCode, ports, outputs, result>>

\* What a removeContainer process does to the runtime: every container the name
\* filter matches is force-removed, unless the removal fails.
RmEffect(name, ok) ==
  /\ containers' = IF ok THEN RemoveByName(containers, name) ELSE containers
  /\ rmFailed' = (rmFailed \/ (~ok /\ RemoveByName(containers, name) # containers))

\* SpawnRmA with the await dropped: the loop goes on while the process runs.
SpawnRmA_NotAwaited ==
  /\ pc = "passA"
  /\ Spawn("rm", svcInfos[i].containerName)
  /\ i' = i + 1
  /\ pc' = IF i + 1 <= Len(svcInfos) THEN "passA" ELSE StartPassB(svcInfos)
  /\ UNCHANGED <<inputVars, sideVars, containers, parseVars, svcInfos, q, conflicting, k, d, rmFailed,
                 upCode, outVars>>

\* Remove containers by name: removeContainer(svc.containerName), spawned.
SpawnRmA ==
  /\ pc = "passA"
  /\ Spawn("rm", svcInfos[i].containerName)
  /\ pc' = "awaitRmA"
  /\ UNCHANGED <<inputVars, sideVars, containers, parseVars, svcInfos, loopVars, rmFailed, upCode,
                 outVars>>

\* ... and awaited: the loop goes on when the process has closed.
CloseRmA ==
  /\ pc = "awaitRmA"
  /\ \E p \in procs :
       /\ p.kind = "rm"
       /\ Closes(p)
       /\ \E ok \in BOOLEAN : RmEffect(p.arg, ok)
  /\ i' = i + 1
  /\ pc' = IF i + 1 <= Len(svcInfos) THEN "passA" ELSE StartPassB(svcInfos)
  /\ UNCHANGED <<inputVars, sideVars, parseVars, svcInfos, q, conflicting, k, d, spawned, upCode,
                 outVars>>

\* Where the by-port pass goes after the port at position q.
AfterPort(infos, pos) == IF pos + 1 <= Len(PortQueue(infos)) THEN "passB" ELSE "up"

\* Remove containers blocking ports: the listing for one declared host port.
\* (The listing command takes no argument; the record keeps the port it is for.)
SpawnList ==
  /\ pc = "passB"
  /\ Spawn("list", PortQueue(svcInfos)[q])
  /\ pc' = "awaitList"
  /\ UNCHANGED <<inputVars, sideVars, containers, parseVars, svcInfos, loopVars, rmFailed, upCode,
                 outVars>>

\* proc.on('close'): the lines of the listing are matched against the port.
CloseList ==
  /\ pc = "awaitList"
  /\ \E p \in procs : p.kind = "list" /\ Closes(p)
  /\ conflicting' = ConflictingContainers(ListingOutput(containers), PortQueue(svcInfos)[q])
  /\ k' = 1
  /\ IF conflicting' # <<>>
       THEN pc' = "rmB" /\ q' = q
       ELSE pc' = AfterPort(svcInfos, q) /\ q' = q + 1
  /\ UNCHANGED <<inputVars, sideVars, containers, parseVars, svcInfos, i, d, spawned, rmFailed,
                 upCode, outVars>>

\* for (const container of conflictingContainers) await removeContainer(container)
SpawnRmB ==
  /\ pc = "rmB"
  /\ Spawn("rm", conflicting[k])
  /\ pc' = "awaitRmB"
  /\ UNCHANGED <<inputVars, sideVars, containers, parseVars, svcInfos, loopVars, rmFailed, upCode,
                 outVars>>

CloseRmB ==
  /\ pc = "awaitRmB"
  /\ \E p \in procs :
       /\ p.kind = "rm"
       /\ Closes(p)
       /\ \E ok \in BOOLEAN : RmEffect(p.arg, ok)
  /\ IF k + 1 <= Len(conflicting)
       THEN k' = k + 1 /\ q' = q /\ pc' = "rmB"
       ELSE k' = k /\ q' = q + 1 /\ pc' = AfterPort(svcInfos, q)
  /\ UNCHANGED <<inputVars, sideVars, parseVars, svcInfos, i, conflicting, d, spawned, upCode,
                 outVars>>

\* Step 3: docker compose -f composePath up -d --build
SpawnUp ==
  /\ pc = "up"
  /\ Spawn("up", ComposePath)
  /\ pc' = "awaitUp"
  /\ UNCHANGED <<inputVars, sideVars, containers, parseVars, svcInfos, loopVars, rmFailed, upCode,
                 outVars>>

\* UpSucceeded with the exit code ignored.
UpSucceeded_AnyCode(code) == TRUE

\* if (code === 0) resolve() else reject(...)
UpSucceeded(code) == code = 0

\* DiscoverFrom that waits on a promise nothing resolves when the loop is over.
DiscoverFrom_NeverResolved(names, pos) == IF pos <= Len(names) THEN "discover" ELSE "awaitInspect"

\* Where the handler goes after a loop over serviceNames from position pos.
DiscoverFrom(names, pos) == IF pos <= Len(names) THEN "discover" ELSE "finish"

\* upProc.on('close', code => ...)
CloseUp ==
  /\ pc = "awaitUp"
  /\ \E p \in procs : p.kind = "up" /\ Closes(p)
  /\ \E code \in 0..MaxExit :
       /\ code = 0 => UpCanSucceed(manifest.services)
       /\ upCode' = code
       /\ \E outcome \in [1..Len(manifest.services) -> Outcomes] :
            containers' = IF code = 0
                            THEN RuntimeAfterUp(containers, manifest.services, outcome)
                            ELSE containers
       /\ IF UpSucceeded(code)
            THEN pc' = DiscoverFrom(serviceNames, 1) /\ error' = error
            ELSE Throw("upFailed", UpFailedMessage(code))
  /\ UNCHANGED <<inputVars, sideVars, parseVars, svcInfos, loopVars, spawned, rmFailed, ports,
                 outputs, result>>

\* SpawnInspect that removes the service's container before querying it.
SpawnInspect_Removes ==
  /\ pc = "discover"
  /\ Spawn("rm", serviceNames[d])
  /\ pc' = "awaitInspect"
  /\ UNCHANGED <<inputVars, sideVars, containers, parseVars, svcInfos, loopVars, rmFailed, upCode,
                 outVars>>

\* Step 4: the port query for one service, spawned.
SpawnInspect ==
  /\ pc = "discover"
  /\ Spawn("inspect", serviceNames[d])
  /\ pc' = "awaitInspect"
  /\ UNCHANGED <<inputVars, sideVars, containers, parseVars, svcInfos, loopVars, rmFailed, upCode,
                 outVars>>

\* CloseInspect that takes a service without a mapping as a failure.
CloseInspect_NeedsMapping ==
  /\ pc = "awaitInspect"
  /\ \E p \in procs : p.kind = "inspect" /\ Closes(p)
  /\ LET mappings == ParseMappings(InspectOutput(containers, serviceNames[d]))
     IN  /\ ports' = SetEntry(ports, serviceNames[d], mappings)
         /\ IF mappings = <<>>
              THEN Throw("noMapping", <<>>)
              ELSE pc' = DiscoverFrom(serviceNames, d + 1) /\ error' = error
  /\ d' = d + 1
  /\ UNCHANGED <<inputVars, sideVars, containers, parseVars, svcInfos, i, q, conflicting, k, spawned,
                 rmFailed, upCode, outputs, result>>

\* inspectProc.on('close'): ports[service] = mappings
CloseInspect ==
  /\ pc = "awaitInspect"
  /\ \E p \in procs : p.kind = "inspect" /\ Closes(p)
  /\ ports' = SetEntry(ports, serviceNames[d],
                       ParseMappings(InspectOutput(containers, serviceNames[d])))
  /\ d' = d + 1
  /\ pc' = DiscoverFrom(serviceNames, d + 1)
  /\ UNCHANGED <<inputVars, sideVars, containers, parseVars, svcInfos, i, q, conflicting, k, spawned,
                 rmFailed, upCode, outputs, result, error>>

\* Step 5 and the outputs: ctx.output('ports', ...), ctx.output('webUrl', ...), return.
Finish ==
  /\ pc = "finish"
  /\ LET webUrl == PickWebUrl(ports)
     IN  /\ outputs' = <<[name |-> "ports", value |-> ports],
                         [name |-> "webUrl", value |-> webUrl]>>
         /\ result' = [returned |-> TRUE, webUrl |-> webUrl, ports |-> ports]
  /\ pc' = "done"
  /\ UNCHANGED <<inputVars, sideVars, containers, parseVars, svcInfos, loopVars, procs, spawned,
                 rmFailed, upCode, ports, error>>

Next ==
  \/ CheckExists
  \/ Parse
  \/ Build
  \/ SpawnRmA
  \/ CloseRmA
  \/ SpawnList
  \/ CloseList
  \/ SpawnRmB
  \/ CloseRmB
  \/ SpawnUp
  \/ CloseUp
  \/ SpawnInspect
  \/ CloseInspect
  \/ Finish

Spec == Init /\ [][Next]_vars

\* The positions of the handler.
Positions ==
  {"start", "parse", "build", "passA", "awaitRmA", "passB", "awaitList", "rmB", "awaitRmB",
   "up", "awaitUp", "discover", "awaitInspect", "finish", "done", "failed"}

\* The positions where the handler awaits the 'close' of a process.
Awaiting == {"awaitRmA", "awaitList", "awaitRmB", "awaitUp", "awaitInspect"}

\* The positions where the handler has finished: returned, or thrown.
Finished == {"done", "failed"}

\* The event loop runs the handler: where it neither awaits nor has finished,
\* it moves to another position.
HandlerRuns == pc \notin Awaiting \cup Finished /\ pc' \in Positions \ {pc}

\* A running process closes.
ProcessCloses == \E p \in procs : procs' = procs \ {p}

\* The handler under the assumptions that the event loop keeps running it and
\* that every spawned process closes.
FairSpec == Init /\ [][Next]_vars /\ WF_pc(HandlerRuns) /\ WF_procs(ProcessCloses)

\* ------------------------------------------- the line parser on its own

\* Largest number of lines of a port-query output handed to the parser alone.
MaxLines == 2

\* Lines 'docker port' prints, for the addresses a runtime may print ...
MappingLines ==
  {cp \o <<"/">> \o proto \o <<" ", "-", ">", " ">> \o addr \o <<":">> \o <<"3", "2", "7", "6", "8">> :
     cp \in {<<"8", "0">>, <<"4", "4", "3">>},
     proto \in {Tcp, Udp},
     addr \in {AnyAddr, AnyAddr6, <<":", ":">>}}

\* ... and lines that are blank or cut short.
BrokenLines ==
  {<<>>, <<" ">>, <<"8", "0", "/", "t", "c", "p">>, <<"8", "0", "/", "t", "c", "p", " ", "-", ">", " ", "0", ".", "0", ".", "0", ".", "0">>, <<"8", "0", "/", "t", "c", "p", " ", "-", ">", " ", "0", ".", "0", ".", "0", ".", "0", ":">>}

LineSamples == MappingLines \cup BrokenLines

\* Outputs of up to MaxLines lines, each ended by a newline.
RECURSIVE ProbeOutputs(_)
ProbeOutputs(n) ==
  IF n = 0 THEN {<<>>}
  ELSE LET shorter == ProbeOutputs(n - 1)
       IN  shorter \cup {line \o <<"\n">> \o rest : line \in LineSamples, rest \in shorter}

LineInit ==
  /\ fileExists = TRUE
  /\ manifest \in {m \in Manifests : ~m.syntaxOk}
  /\ containers = <<>>
  /\ pc = "probe"
  /\ serviceNames = <<>>
  /\ composeDoc = EmptyDoc
  /\ parsed = FALSE
  /\ svcInfos = <<>>
  /\ i = 1 /\ q = 1 /\ conflicting = <<>> /\ k = 1 /\ d = 1
  /\ procs = {}
  /\ spawned = <<>>
  /\ rmFailed = FALSE
  /\ upCode = -1
  /\ ports = <<>>
  /\ outputs = <<>>
  /\ result = NoResult
  /\ error = NoError
  /\ probe \in {[output |-> o, mappings |-> <<>>, done |-> FALSE] : o \in ProbeOutputs(MaxLines)}
  /\ stderrLog = <<>>
  /\ other = NoOther

\* inspectProc.on('close') on the output alone: const mappings = ...
ParseProbe ==
  /\ pc = "probe"
  /\ ~probe.done
  /\ probe' = [probe EXCEPT !.mappings = ParseMappings(probe.output), !.done = TRUE]
  /\ UNCHANGED <<inputVars, containers, pc, parseVars, svcInfos, loopVars, procs, spawned,
                 rmFailed, upCode, outVars, stderrLog, other>>

LineSpec == LineInit /\ [][ParseProbe]_vars

\* ------------------------------------------- the error stream of 'compose up'

\* The largest number of chunks upProc's error stream delivers.
MaxChunks == 2

\* Chunks of the error stream: creation progress, a warning of the tool, and
\* two that carry none of the markers.
ChunkCreating == <<" ", "w", "e", "b", " ", "C", "r", "e", "a", "t", "i", "n", "g">>
ChunkCreated == <<" ", "w", "e", "b", " ", "C", "r", "e", "a", "t", "e", "d">>
ChunkWarning == <<"l", "e", "v", "e", "l", "=", "w", "a", "r", "n", "i", "n", "g", " ", "x">>
ChunkStarted == <<" ", "w", "e", "b", " ", "S", "t", "a", "r", "t", "e", "d">>
ChunkDenied == <<"p", "u", "l", "l", " ", "d", "e", "n", "i", "e", "d">>
StderrChunks == {ChunkCreating, ChunkCreated, ChunkWarning, ChunkStarted, ChunkDenied}

MarkerCreating == <<"C", "r", "e", "a", "t", "i", "n", "g">>
MarkerCreated == <<"C", "r", "e", "a", "t", "e", "d">>
MarkerWarning == <<"l", "e", "v", "e", "l", "=", "w", "a", "r", "n", "i", "n", "g">>
PrefixWarn == <<"D", "O", "C", "K", "E", "R", " ", "W", "A", "R", "N", ":", " ">>
PrefixErr == <<"D", "O", "C", "K", "E", "R", " ", "E", "R", "R", ":", " ">>

\* str.includes('Creating') || str.includes('Created') || str.includes('level=warning')
HasMarker(str) ==
  Includes(str, MarkerCreating) \/ Includes(str, MarkerCreated) \/ Includes(str, MarkerWarning)

\* The logger call of the stderr handler: ctx.logger.warn in both branches.
LogStderr(str) ==
  IF HasMarker(str)
    THEN [level |-> "warn", message |-> PrefixWarn \o str]
    ELSE [level |-> "warn", message |-> PrefixErr \o str]

\* upProc.stderr.on('data', ...): one chunk arrives while 'compose up' runs.
UpStderr ==
  /\ pc = "awaitUp"
  /\ \E p \in procs : p.kind = "up"
  /\ Len(stderrLog) < MaxChunks
  /\ \E str \in StderrChunks : stderrLog' = Append(stderrLog, LogStderr(str))
  /\ UNCHANGED <<inputVars, probe, other, containers, pc, parseVars, svcInfos, loopVars, procs,
                 spawned, rmFailed, upCode, outVars>>

\* One declared service with published ports, on a runtime where its ports
\* may be taken.
LogInit ==
  /\ Init
  /\ fileExists
  /\ manifest.hasServices
  /\ Len(manifest.services) = 1
  /\ manifest.services[1].def = DefWeb

LogNext == Next \/ UpStderr

\* The handler with the error stream of 'compose up' observed.
LogSpec == LogInit /\ [][LogNext]_vars

\* ------------------------------------------------------- two invocations

\* svcInfos as the second invocation builds it from the same manifest.
OtherInfos == BuildSvcInfos(ParsedDoc(manifest), ParsedNames(manifest))

\* The containers a removal of the second invocation took away that the first
\* invocation's 'compose up' had made and its port query has not yet read.
Taken(before, after) ==
  {c \in Range(before) \ Range(after) :
     /\ pc \in {"discover", "awaitInspect"}
     /\ \E n \in d..Len(svcInfos) : c.name = svcInfos[n].containerName}

\* The second invocation is called: it reads the manifest and builds svcInfos.
OtherBegin ==
  /\ other.pc = "idle"
  /\ fileExists
  /\ ~BuildThrows(ParsedDoc(manifest), ParsedNames(manifest))
  /\ other' = [other EXCEPT !.pc = StartPassA(OtherInfos)]
  /\ UNCHANGED <<inputVars, probe, stderrLog, containers, pc, parseVars, svcInfos, loopVars, procs,
                 spawned, rmFailed, upCode, outVars>>

\* Its by-name pass: one removeContainer process closes.
OtherRmA ==
  /\ other.pc = "passA"
  /\ \E ok \in BOOLEAN :
       containers' = IF ok THEN RemoveByName(containers, OtherInfos[other.i].containerName)
                           ELSE containers
  /\ other' = [other EXCEPT !.i = other.i + 1,
                            !.pc = IF other.i + 1 <= Len(OtherInfos)
                                     THEN "passA" ELSE StartPassB(OtherInfos),
                            !.took = other.took \cup Taken(containers, containers')]
  /\ UNCHANGED <<inputVars, probe, stderrLog, pc, parseVars, svcInfos, loopVars, procs, spawned,
                 rmFailed, upCode, outVars>>

\* Its by-port pass: the listing for one declared host port closes.
OtherList ==
  /\ other.pc = "passB"
  /\ LET found == ConflictingContainers(ListingOutput(containers),
                                        PortQueue(OtherInfos)[other.q])
     IN  other' = IF found # <<>>
                    THEN [other EXCEPT !.conflicting = found, !.k = 1, !.pc = "rmB"]
                    ELSE [other EXCEPT !.conflicting = found, !.k = 1, !.q = other.q + 1,
                                       !.pc = AfterPort(OtherInfos, other.q)]
  /\ UNCHANGED <<inputVars, probe, stderrLog, containers, pc, parseVars, svcInfos, loopVars, procs,
                 spawned, rmFailed, upCode, outVars>>

\* ... and the removeContainer process of one conflicting container closes.
OtherRmB ==
  /\ other.pc = "rmB"
  /\ \E ok \in BOOLEAN :
       containers' = IF ok THEN RemoveByName(containers, other.conflicting[other.k])
                           ELSE containers
  /\ other' = IF other.k + 1 <= Len(other.conflicting)
                THEN [other EXCEPT !.k = other.k + 1,
                                   !.took = other.took \cup Taken(containers, containers')]
                ELSE [other EXCEPT !.q = other.q + 1,
                                   !.pc = AfterPort(OtherInfos, other.q),
                                   !.took = other.took \cup Taken(containers, containers')]
  /\ UNCHANGED <<inputVars, probe, stderrLog, pc, parseVars, svcInfos, loopVars, procs, spawned,
                 rmFailed, upCode, outVars>>

\* Its 'compose up' closes; its discovery then only reads.
OtherUp ==
  /\ other.pc = "up"
  /\ \E code \in 0..MaxExit :
       /\ code = 0 => UpCanSucceed(manifest.services)
       /\ \E outcome \in [1..Len(manifest.services) -> Outcomes] :
            containers' = IF code = 0
                            THEN RuntimeAfterUp(containers, manifest.services, outcome)
                            ELSE containers
       /\ other' = [other EXCEPT !.pc = IF UpSucceeded(code) THEN "done" ELSE "failed"]
  /\ UNCHANGED <<inputVars, probe, stderrLog, pc, parseVars, svcInfos, loopVars, procs, spawned,
                 rmFailed, upCode, outVars>>

\* One declared service, with or without published ports.
TwoInit ==
  /\ Init
  /\ fileExists
  /\ manifest.hasServices
  /\ Len(manifest.services) = 1
  /\ manifest.services[1].def \in {DefWeb, DefPlain}

TwoNext == Next \/ OtherBegin \/ OtherRmA \/ OtherList \/ OtherRmB \/ OtherUp

\* Two invocations of the handler on one runtime, interleaved at the closes of
\* their processes.
TwoSpec == TwoInit /\ [][TwoNext]_vars

\* ------------------------------------------------------- derived quantities

\* The processes of the given kinds spawned so far.
SpawnedOf(kinds) == {n \in 1..Len(spawned) : spawned[n].kind \in kinds}

\* Whether the manifest cannot be parsed or has no 'services' key.
Unreadable(m) == ~(m.syntaxOk /\ m.docDefined /\ m.hasServices)

\* -------------------------------------------------------------------- C1

\* C1: when 'compose up' has closed with a non-zero code c, the handler has
\* thrown an error whose message contains the decimal text of c, no port query
\* has been spawned, and neither output has been emitted nor a value returned.
C1_UpFailureIsFatal ==
  upCode > 0 =>
    /\ pc = "failed"
    /\ error.thrown
    /\ Includes(error.message, DecStr(upCode))
    /\ SpawnedOf({"inspect"}) = {}
    /\ outputs = <<>>
    /\ ~result.returned

\* A launch that closed with the largest exit code of the model, for a manifest
\* with services to discover.
C1_Witness == upCode = MaxExit /\ pc = "failed" /\ serviceNames # <<>>

\* -------------------------------------------------------------------- C2

\* C2: when the compose file does not exist, the handler, once it has moved,
\* has thrown the not-found error; the manifest has not been read, no process
\* has been spawned and nothing has been emitted or returned.
C2_MissingFileAbortsFirst ==
  (~fileExists /\ pc # "start") =>
    /\ pc = "failed"
    /\ error.thrown /\ error.kind = "notFound"
    /\ ~parsed
    /\ spawned = <<>> /\ procs = {}
    /\ outputs = <<>>
    /\ ~result.returned

\* The file is missing, there are services and containers to act on, and the
\* handler has ended.
C2_Witness ==
  ~fileExists /\ pc = "failed" /\ manifest.services # <<>> /\ containers # <<>>

\* -------------------------------------------------------------------- C3

\* C3: at most one external process runs at a time, and it is the one spawned
\* last; when 'compose up' has been spawned, both removal passes have run to
\* their end and only removals and listings were spawned before it and only
\* port queries after it; when a port query has been spawned, 'compose up' has
\* closed with code 0.
C3_StagesSequential ==
  /\ Cardinality(procs) <= 1
  /\ \A p \in procs : p.id = Len(spawned)
  /\ \A n \in 1..Len(spawned) :
       /\ spawned[n].kind = "up" =>
            /\ i > Len(svcInfos)
            /\ q > Len(PortQueue(svcInfos))
            /\ \A m \in 1..(n - 1) : spawned[m].kind \in {"rm", "list"}
            /\ \A m \in (n + 1)..Len(spawned) : spawned[m].kind = "inspect"
            /\ \A p \in procs : p.kind \notin {"rm", "list"}
       /\ spawned[n].kind = "inspect" =>
            /\ upCode = 0
            /\ \E m \in 1..(n - 1) : spawned[m].kind = "up"
            /\ \A p \in procs : p.kind # "up"

\* A port query is running after a by-name removal, a listing, a by-port
\* removal and the launch.
C3_Witness ==
  /\ \E p \in procs : p.kind = "inspect"
  /\ \E n \in SpawnedOf({"rm"}) : spawned[n].at = "passA"
  /\ \E n \in SpawnedOf({"rm"}) : spawned[n].at = "rmB"
  /\ SpawnedOf({"list"}) # {}

\* -------------------------------------------------------------------- C4

\* The host port a port specification declares, as the compose syntax
\* [IP:]HOST:CONTAINER reads it: none without a colon, else the segment before
\* the last one.
RECURSIVE DeclaredHostPorts(_)
DeclaredHostPorts(specs) ==
  IF specs = <<>> THEN <<>>
  ELSE LET parts == Split(Head(specs), <<":">>)
       IN  (IF Len(parts) >= 2 THEN <<parts[Len(parts) - 1]>> ELSE <<>>)
           \o DeclaredHostPorts(Tail(specs))

\* Whether a running container forwards the host port.
Forwards(c, hostPort) ==
  c.running /\ \E n \in 1..Len(c.bindings) : c.bindings[n].hostPort = hostPort

\* C4: when 'compose up' is about to be spawned and no force-removal has
\* failed, no container has the resolved name of a service, and no running
\* container forwards a host port that a service declares.
C4_NoCollisionAtLaunch ==
  (pc = "up" /\ ~rmFailed) =>
    \A n \in 1..Len(svcInfos) :
      \A c \in Range(containers) :
        /\ c.name # svcInfos[n].containerName
        /\ \A h \in Range(DeclaredHostPorts(DefOf(composeDoc.services, svcInfos[n].service).ports)) :
             ~Forwards(c, h)

\* -------------------------------------------------------------------- C5

\* C5: the handler throws only when the compose file is missing or 'compose
\* up' closed with a non-zero code.
C5_OnlyTwoFatalConditions ==
  error.thrown => (~fileExists \/ upCode > 0)

\* -------------------------------------------------------------------- C6

\* C6: for an existing manifest that cannot be parsed or has no 'services'
\* key, the service list stays empty; no removal, listing or port query is ever
\* spawned; the handler throws only on a non-zero exit of 'compose up'; by the
\* time the launch has been awaited exactly one 'compose up' has been spawned,
\* on the raw manifest path; and after a zero exit the handler reaches the end
\* and returns ports = {} and webUrl = "".
C6_UnreadableManifestStillLaunches ==
  (fileExists /\ Unreadable(manifest)) =>
    /\ serviceNames = <<>> /\ svcInfos = <<>>
    /\ SpawnedOf({"rm", "list", "inspect"}) = {}
    /\ Cardinality(SpawnedOf({"up"})) <= 1
    /\ \A n \in SpawnedOf({"up"}) : spawned[n].arg = ComposePath
    /\ pc \in {"awaitUp", "finish", "done", "failed"} => Cardinality(SpawnedOf({"up"})) = 1
    /\ error.thrown => upCode > 0
    /\ upCode = 0 => pc \in {"finish", "done"}
    /\ pc = "done" =>
         /\ result = [returned |-> TRUE, webUrl |-> <<>>, ports |-> <<>>]
         /\ outputs = <<[name |-> "ports", value |-> <<>>], [name |-> "webUrl", value |-> <<>>]>>

\* A manifest that yaml.load rejects, containers left over, and the handler
\* has returned.
C6_Witness ==
  /\ fileExists /\ ~manifest.syntaxOk
  /\ containers # <<>>
  /\ pc = "done" /\ result.returned

\* -------------------------------------------------------------------- C7

\* C7: the host ports recorded for a service are exactly the host ports its
\* port specifications declare, in order.
C7_DeclaredHostPorts ==
  \A n \in 1..Len(svcInfos) :
    LET def == DefOf(composeDoc.services, svcInfos[n].service)
    IN  svcInfos[n].expectedHostPorts
          = (IF def.hasPorts THEN DeclaredHostPorts(def.ports) ELSE <<>>)

\* -------------------------------------------------------------------- C8

\* Whether some running container whose name contains the service name
\* publishes a tcp port.
HasTcpMapping(cs, service) ==
  \E c \in Range(cs) :
    /\ c.running
    /\ Includes(c.name, service)
    /\ \E n \in 1..Len(c.bindings) : c.bindings[n].proto = Tcp

\* C8: the keys of the returned 'ports' map are exactly the service names of
\* the manifest, each once and in their order; a service with no running
\* container, or none that publishes a tcp port, is present with an empty
\* sequence, and every other service with a non-empty one.
C8_PortsKeysAreServices ==
  result.returned =>
    /\ Len(result.ports) = Len(manifest.services)
    /\ \A n \in 1..Len(result.ports) :
         /\ result.ports[n].service = manifest.services[n].name
         /\ (result.ports[n].mappings = <<>>)
              <=> ~HasTcpMapping(containers, result.ports[n].service)
    /\ outputs[1] = [name |-> "ports", value |-> result.ports]

\* A result with an entry that is empty and an entry that is not.
C8_Witness ==
  /\ result.returned
  /\ \E n \in 1..Len(result.ports) : result.ports[n].mappings = <<>>
  /\ \E n \in 1..Len(result.ports) : result.ports[n].mappings # <<>>

\* -------------------------------------------------------------------- C9

\* C9: the returned webUrl is "http://localhost:" followed by the hostPort of
\* the first mapping of the first service, in service order, that has a
\* mapping; it is empty exactly when no service has one.
C9_WebUrlFromFirstMapping ==
  result.returned =>
    LET have == {n \in 1..Len(serviceNames) : result.ports[n].mappings # <<>>}
        first == CHOOSE n \in have : \A m \in have : n <= m
    IN  /\ \A n \in 1..Len(serviceNames) : result.ports[n].service = serviceNames[n]
        /\ (result.webUrl = <<>>) <=> (have = {})
        /\ have # {} => result.webUrl = UrlPrefix \o result.ports[first].mappings[1].hostPort
        /\ outputs[2] = [name |-> "webUrl", value |-> result.webUrl]

\* The first service has no mapping and the second has one, which gives the URL.
C9_Witness ==
  /\ result.returned
  /\ Len(result.ports) >= 2
  /\ result.ports[1].mappings = <<>>
  /\ result.ports[2].mappings # <<>>
  /\ result.webUrl = UrlPrefix \o AssignedPort(2)

\* ------------------------------------------------------------------- C10

\* The removals spawned in the given pass for the given name.
RemovalsOf(pass, name) ==
  {n \in SpawnedOf({"rm"}) : spawned[n].at = pass /\ spawned[n].arg = name}

\* C10: the by-name pass spawns one removal per resolved container name, and
\* the by-port pass at most one removal per container.
C10_OneRemovalPerContainer ==
  /\ \A n \in 1..Len(svcInfos) :
       LET count == Cardinality(RemovalsOf("passA", svcInfos[n].containerName))
       IN  count <= 1 /\ (i > Len(svcInfos) => count = 1)
  /\ \A n \in SpawnedOf({"rm"}) :
       spawned[n].at = "rmB" => Cardinality(RemovalsOf("rmB", spawned[n].arg)) = 1

\* ------------------------------------------------------------------- C11

\* The container identity of a service: its declared container_name, else
\* '<base name of the working directory>_<service name>_1'.
Identity(service, def) ==
  IF def.container_name # <<>>
    THEN def.container_name
    ELSE <<"p", "r", "o", "j", "_">> \o service \o <<"_", "1">>

\* C11: a by-name removal targets the identity of its service; when it closes,
\* every container that has gone had exactly that name, and with no container
\* of that name the runtime is unchanged.
C11_ByNameRemovesExactIdentity ==
  [][pc = "awaitRmA" =>
       LET id == Identity(svcInfos[i].service, DefOf(composeDoc.services, svcInfos[i].service))
       IN  /\ \A p \in procs : p.arg = id
           /\ \A c \in Range(containers) : c \notin Range(containers') => c.name = id
           /\ (\A c \in Range(containers) : c.name # id) => containers' = containers]_vars

\* ------------------------------------------------------------------- C12

\* C12: the containers a listing reports as conflicts for a declared host port
\* are running containers that forward that host port, and a by-port removal
\* takes away only containers that forward it.
C12_ByPortRemovesOnlyForwarders ==
  [][/\ pc = "awaitList" =>
          \A name \in Range(conflicting') :
            \E c \in Range(containers) :
              c.name = name /\ Forwards(c, PortQueue(svcInfos)[q])
     /\ pc = "awaitRmB" =>
          \A c \in Range(containers) :
            c \notin Range(containers') => Forwards(c, PortQueue(svcInfos)[q])]_vars

\* ------------------------------------------------------------------- C13

\* The tcp mappings of a list of published ports, in order.
RECURSIVE TcpMappings(_)
TcpMappings(bs) ==
  IF bs = <<>> THEN <<>>
  ELSE (IF Head(bs).proto = Tcp
          THEN <<[containerPort |-> Head(bs).containerPort, hostPort |-> Head(bs).hostPort]>>
          ELSE <<>>)
       \o TcpMappings(Tail(bs))

\* The tcp mappings of the running containers whose name contains the service
\* name, in listing order.
RECURSIVE RunningTcpMappings(_, _)
RunningTcpMappings(cs, service) ==
  IF cs = <<>> THEN <<>>
  ELSE (IF Head(cs).running /\ Includes(Head(cs).name, service)
          THEN TcpMappings(Head(cs).bindings)
          ELSE <<>>)
       \o RunningTcpMappings(Tail(cs), service)

\* The mappings recorded in a ports object for a service.
RecordedFor(obj, service) ==
  LET at == {n \in 1..Len(obj) : obj[n].service = service}
  IN  IF at = {} THEN <<>> ELSE obj[CHOOSE n \in at : TRUE].mappings

\* C13: when the port query of a service closes, the sequence recorded for the
\* service is the sequence of tcp mappings of the containers that are running
\* and whose name contains the service name.
C13_RecordedAreRunningTcpMappings ==
  [][pc = "awaitInspect" =>
       RecordedFor(ports', serviceNames[d]) = RunningTcpMappings(containers, serviceNames[d])]_vars

\* ------------------------------------------------------------------- C14

\* Position of the last occurrence of sub in s; 0 if none.
LastIndexOf(s, sub) ==
  LET hits == {n \in 1..(Len(s) + 1) : MatchAt(s, sub, n)}
  IN  IF hits = {} THEN 0 ELSE CHOOSE n \in hits : \A m \in hits : m <= n

\* The binding of a line '<containerPort>/tcp -> <hostAddress>:<hostPort>',
\* whatever the host address; nothing for any other line.
LineBinding(line) ==
  LET n == DigitPrefix(line)
      arrow == <<"/", "t", "c", "p", " ", "-", ">", " ">>
      rest == SubSeq(line, n + Len(arrow) + 1, Len(line))
      c == LastIndexOf(rest, <<":">>)
  IN  IF n >= 1 /\ MatchAt(line, arrow, n + 1) /\ c >= 2 /\ AllDigits(SubSeq(rest, c + 1, Len(rest)))
        THEN <<[containerPort |-> SubSeq(line, 1, n), hostPort |-> SubSeq(rest, c + 1, Len(rest))]>>
        ELSE <<>>

RECURSIVE LineBindings(_)
LineBindings(lines) ==
  IF lines = <<>> THEN <<>> ELSE LineBinding(Head(lines)) \o LineBindings(Tail(lines))

\* C14: the mappings parsed from an output are the bindings of its lines of the
\* form '<containerPort>/tcp -> <hostAddress>:<hostPort>', for any host address,
\* in order; every other line contributes nothing.
C14_LinesOfTheFormAreParsed ==
  probe.done => probe.mappings = LineBindings(Split(probe.output, <<"\n">>))

\* ------------------------------------------------------------------- C15

\* C15: when a listing has been spawned, the by-name loop has run to its end,
\* every by-name removal was spawned before it and has closed; and when no
\* removal has failed, a container just reported as a port conflict exists and
\* does not have the name of a by-name target.
C15_ByNameBeforeByPort ==
  /\ \A n \in SpawnedOf({"list"}) :
       /\ i > Len(svcInfos)
       /\ \A m \in SpawnedOf({"rm"}) : spawned[m].at = "passA" => m < n
       /\ \A p \in procs : p.id >= n
  /\ (pc = "rmB" /\ k = 1) =>
       \A name \in Range(conflicting) :
         /\ \E c \in Range(containers) : c.name = name /\ c.running
         /\ ~rmFailed => \A n \in 1..Len(svcInfos) : svcInfos[n].containerName # name

\* A conflict has just been reported, after the by-name removals of two
\* services, none of which failed.
C15_Witness ==
  /\ pc = "rmB" /\ k = 1 /\ ~rmFailed
  /\ Len(svcInfos) >= 2
  /\ conflicting # <<>>

\* ------------------------------------------------------------------- C19

\* The positions of the handler from the spawn of 'compose up' on.
AfterUpStarted == {"awaitUp", "discover", "awaitInspect", "finish", "done"}

\* C19: in every step, no removal and no listing is spawned after 'compose up'
\* was; once 'compose up' has closed the runtime is left as it is, so what the
\* launch created stays; and svcInfos does not change once it is built.
C19_NoRemovalAfterLaunch ==
  [][/\ \A u \in SpawnedOf({"up"})' : \A n \in SpawnedOf({"rm", "list"})' : n < u
     /\ pc \in AfterUpStarted => \A p \in procs' : p.kind \in {"up", "inspect"}
     /\ pc \in AfterUpStarted \ {"awaitUp"} => containers' = containers
     /\ pc \notin {"start", "parse", "build"} => svcInfos' = svcInfos]_vars

\* The handler has returned after removals, a launch that created a container
\* and a port query.
C19_Witness ==
  /\ pc = "done"
  /\ SpawnedOf({"rm"}) # {}
  /\ SpawnedOf({"inspect"}) # {}
  /\ \E n \in 1..Len(svcInfos) :
       \E c \in Range(containers) : c.name = svcInfos[n].containerName /\ c.running

\* ------------------------------------------------------------------- C16

\* C16: when every process closes, the handler eventually returns or throws,
\* and it has then returned a result or thrown an error; while a process
\* runs the handler is awaiting it and has neither returned nor thrown, and
\* the only step is that process's close: nothing is spawned before it.
C16_FinishesWhenProcessesClose ==
  /\ <>(pc \in Finished)
  /\ [](pc \in Finished => (result.returned \/ error.thrown))
  /\ [](procs # {} => pc \in Awaiting /\ ~result.returned /\ ~error.thrown)
  /\ [][procs # {} => procs' = {} /\ spawned' = spawned]_vars

\* The handler has returned after a process of every kind has closed.
C16_Witness ==
  /\ pc = "done" /\ result.returned /\ procs = {}
  /\ \A kind \in {"rm", "list", "up", "inspect"} : SpawnedOf({kind}) # {}

\* ------------------------------------------------------------------- C18

\* The chunk a message of the stderr handler was made from: what follows the
\* first ": ".
ChunkOf(message) ==
  LET at == IndexOf(message, <<":", " ">>, 1)
  IN  SubSeq(message, at + 2, Len(message))

\* C18: a chunk with one of the markers is logged at warning level and every
\* other chunk at error level; and the handler goes past 'compose up' exactly
\* when the exit code is 0, whatever was logged.
C18_StderrLevelByMarker ==
  /\ \A n \in 1..Len(stderrLog) :
       stderrLog[n].level = IF HasMarker(ChunkOf(stderrLog[n].message)) THEN "warn" ELSE "error"
  /\ pc \in {"discover", "awaitInspect", "finish", "done"} => upCode = 0
  /\ (pc = "failed" /\ error.kind = "upFailed") => upCode # 0

\* ------------------------------------------------------------------- C17

\* C17: nothing keeps a second invocation from removing what the first has
\* launched; when it has removed the container of a service after the first
\* invocation's 'compose up' and before that service's port query, and has
\* not launched the stack again itself, the first invocation throws no error
\* and records an empty list of bindings for the service.
C17_RemovedByOtherGoesUnnoticed ==
  \A n \in 1..Len(svcInfos) :
    \A c \in other.took :
      (/\ c.name = svcInfos[n].containerName
       /\ other.pc # "done"
       /\ pc \in {"discover", "awaitInspect"} => d > n)
      => /\ ~error.thrown
         /\ pc # "failed"
         /\ \E m \in 1..Len(ports) : ports[m].service = svcInfos[n].service
         /\ RecordedFor(ports, svcInfos[n].service) = <<>>

\* The first invocation has returned with no binding and no webUrl for a
\* service whose running container, with a tcp mapping, the second invocation
\* removed between the launch and the port query.
C17_Witness ==
  /\ pc = "done" /\ result.returned /\ upCode = 0
  /\ result.webUrl = <<>>
  /\ \E n \in 1..Len(svcInfos) :
       /\ RecordedFor(result.ports, svcInfos[n].service) = <<>>
       /\ \E c \in other.took :
            /\ c.name = svcInfos[n].containerName
            /\ c.running
            /\ \E b \in 1..Len(c.bindings) : c.bindings[b].proto = Tcp

====
